---------------------------- MODULE Spec2Model ----------------------------
(***************************************************************************)
(* Model of termoPy.py: ideal-gas processes (Isothermal, Isobaric,         *)
(* Isochoric, Adiabatic), the cycles built from them (Carnot, Otto and the *)
(* empty Brayton/Stirling/Ericsson/Rankine/Kalina classes) and the         *)
(* IdealGas object with its state solver and its transitions.              *)
(*                                                                         *)
(* Numbers.  The program computes in floating point.  The model computes   *)
(* exactly: a number is a + b*sqrt(Radicand) with a, b rational, which is  *)
(* closed under the four operations and under the half-integer powers the  *)
(* Carnot code takes of temperature ratios.  Cube and fifth roots (Otto)   *)
(* are taken only of perfect powers; Exact guards the inputs accordingly.  *)
(* np.log is kept symbolic: an energy is r + l*ln(arg) with arg > 1, or    *)
(* nan (np.log of a negative number).                                      *)
(***************************************************************************)
EXTENDS Integers, Sequences, FiniteSets, TLC

(***************************************************************************)
(* Call by value.  Python evaluates the arguments of a call before the     *)
(* call; Apply1..Apply3 apply an operator to the values of its arguments.  *)
(***************************************************************************)
Apply1(F(_), x) == CHOOSE r \in { F(u) : u \in {x} } : TRUE
Apply2(F(_, _), x, y) == CHOOSE r \in { F(u, v) : u \in {x}, v \in {y} } : TRUE
Apply3(F(_, _, _), x, y, z) ==
    CHOOSE r \in { F(u, v, w) : u \in {x}, v \in {y}, w \in {z} } : TRUE

(***************************************************************************)
(* Rationals: [n |-> numerator, d |-> denominator], d > 0, lowest terms.   *)
(***************************************************************************)
IAbs(i) == IF i < 0 THEN -i ELSE i

RECURSIVE GCD(_, _)
GCD(a, b) == IF b = 0 THEN a ELSE GCD(b, a % b)

Q(n, d) ==
    LET Reduced(s, g) == [n |-> s * (n \div g), d |-> s * (d \div g)]
    IN  Reduced(IF d < 0 THEN -1 ELSE 1, GCD(IAbs(n), IAbs(d)))

QI(i) == [n |-> i, d |-> 1]

QNeg(x) == [n |-> -x.n, d |-> x.d]

QAdd(x, y) ==
    LET Over(g) == Q(x.n * (y.d \div g) + y.n * (x.d \div g), (x.d \div g) * y.d)
    IN  Over(GCD(x.d, y.d))

QSub(x, y) == QAdd(x, QNeg(y))

QMul(x, y) ==
    LET Cancelled(g1, g2) ==
            [n |-> (x.n \div g1) * (y.n \div g2), d |-> (x.d \div g2) * (y.d \div g1)]
    IN  IF x.n = 0 \/ y.n = 0 THEN QI(0)
        ELSE Cancelled(GCD(IAbs(x.n), y.d), GCD(IAbs(y.n), x.d))

QInv(x) == IF x.n < 0 THEN [n |-> -x.d, d |-> -x.n] ELSE [n |-> x.d, d |-> x.n]

QDiv(x, y) == QMul(x, QInv(y))

QSign(x) == IF x.n > 0 THEN 1 ELSE IF x.n < 0 THEN -1 ELSE 0

\* x < y, comparing integer parts first so that the cross products stay small
QLt(x, y) ==
    LET Floors(fx, fy) ==
            IF fx # fy THEN fx < fy
            ELSE (x.n - fx * x.d) * y.d < (y.n - fy * y.d) * x.d
    IN  Floors(x.n \div x.d, y.n \div y.d)

(***************************************************************************)
(* Numbers a + b*sqrt(Radicand).  Radicand is the square-free part of      *)
(* 300*500, so that sqrt(300/500) is a number of the model.                *)
(***************************************************************************)
Radicand == 3 * 5

S(a, b) == [a |-> a, b |-> b]
SQ(q)   == [a |-> q, b |-> QI(0)]
SI(i)   == SQ(QI(i))
SR(n, d) == SQ(Q(n, d))

SNeg(arg) ==
    Apply1(LAMBDA x :
        S(QNeg(x.a), QNeg(x.b)),
        arg)
SAdd(arg1, arg2) ==
    Apply2(LAMBDA x, y :
        S(QAdd(x.a, y.a), QAdd(x.b, y.b)),
        arg1, arg2)
SSub(arg1, arg2) ==
    Apply2(LAMBDA x, y :
        S(QSub(x.a, y.a), QSub(x.b, y.b)),
        arg1, arg2)
SMul(arg1, arg2) ==
    Apply2(LAMBDA x, y :
        S(QAdd(QMul(x.a, y.a), QMul(QMul(x.b, y.b), QI(Radicand))),
          QAdd(QMul(x.a, y.b), QMul(x.b, y.a))),
        arg1, arg2)
\* 1/(a + b*sqrt(D)) = (a - b*sqrt(D)) / (a^2 - D*b^2)
SInv(arg) ==
    Apply1(LAMBDA x :
        IF x.b.n = 0 THEN SQ(QInv(x.a))
        ELSE LET Over(den) == S(QDiv(x.a, den), QNeg(QDiv(x.b, den)))
             IN  Over(QSub(QMul(x.a, x.a), QMul(QMul(x.b, x.b), QI(Radicand)))),
        arg)
SDiv(arg1, arg2) ==
    Apply2(LAMBDA x, y :
        SMul(x, SInv(y)),
        arg1, arg2)

IsZero(x) == x.a.n = 0 /\ x.b.n = 0

\* sign of a + b*sqrt(D): when a and b disagree, compare |a/b| with sqrt(D)
SSign(arg) ==
    Apply1(LAMBDA x :
        LET Big(q) == IF IAbs(q.n) \div q.d >= Radicand THEN TRUE
                      ELSE q.n * q.n > Radicand * q.d * q.d
            Signs(sa, sb) ==
                IF sb = 0 THEN sa
                ELSE IF sa = 0 \/ sa = sb THEN sb
                ELSE IF Big(QDiv(x.a, x.b)) THEN sa ELSE sb
        IN  Signs(QSign(x.a), QSign(x.b)),
        arg)

\* x < y; numbers with the same irrational part are compared as rationals
SLt(arg1, arg2) ==
    Apply2(LAMBDA x, y :
        IF x.b = y.b THEN QLt(x.a, y.a) ELSE SSign(SSub(x, y)) < 0,
        arg1, arg2)
SAbs(arg) ==
    Apply1(LAMBDA x :
        IF SSign(x) < 0 THEN SNeg(x) ELSE x,
        arg)


(***************************************************************************)
(* Powers.  x ** e for a rational base x > 0 and a rational exponent e, as *)
(* Python's float power: exact on the bases the model draws.               *)
(***************************************************************************)
RECURSIVE IPow(_, _)
IPow(b, e) == IF e = 0 THEN 1 ELSE b * IPow(b, e - 1)

\* the integer part of the k-th root of i >= 0
IRoot(i, k) == CHOOSE r \in 0..i : IPow(r + 1, k) > i

IsPerfect(i, k) == IPow(IRoot(i, k), k) = i

RECURSIVE SPowI(_, _)
SPowI(x, e) == IF e = 0 THEN SI(1) ELSE IF e = 1 THEN x ELSE SMul(x, SPowI(x, e - 1))

\* sqrt of a positive rational, in Q(sqrt(Radicand))
HasSqrt(q) ==
    \/ IsPerfect(q.n, 2) /\ IsPerfect(q.d, 2)
    \/ IsPerfect(Radicand * q.n * q.d, 2)

SqrtQ(q) ==
    IF IsPerfect(q.n, 2) /\ IsPerfect(q.d, 2)
    THEN SQ(Q(IRoot(q.n, 2), IRoot(q.d, 2)))
    ELSE S(QI(0), Q(IRoot(Radicand * q.n * q.d, 2), Radicand * q.d))

\* the k-th root of a positive rational, k odd, when it is rational
RootQ(q, k) == SQ(Q(IRoot(q.n, k), IRoot(q.d, k)))

\* x ** e is a number of the model
ExactPow(x, e) ==
    /\ x.b.n = 0
    /\ x.a.n > 0
    /\ \/ e.d = 1
       \/ e.d = 2 /\ HasSqrt(x.a)
       \/ e.d > 2 /\ IsPerfect(x.a.n, e.d) /\ IsPerfect(x.a.d, e.d)

Pow(arg1, arg2) ==
    Apply2(LAMBDA x, e :
        LET Signed(p) == IF e.n < 0 THEN SInv(p) ELSE p
            Raised(root) == Apply1(Signed, SPowI(root, IAbs(e.n)))
        IN  Apply1(Raised, IF e.d = 1 THEN x
                           ELSE IF e.d = 2 THEN SqrtQ(x.a)
                           ELSE RootQ(x.a, e.d)),
        arg1, arg2)

(***************************************************************************)
(* Optional values: None is the empty tuple, a present value v is <<v>>.   *)
(***************************************************************************)
None == << >>
Some(v) == << v >>
Val(o) == o[1]

(***************************************************************************)
(* Energies: r + l*ln(arg), arg > 1 (arg = 1 when l = 0), or nan.  ok is   *)
(* FALSE when a result is not of this form (two different logarithms).     *)
(***************************************************************************)
EOf(s) == [nan |-> FALSE, ok |-> TRUE, r |-> s, l |-> SI(0), arg |-> SI(1)]
ENaN   == [nan |-> TRUE,  ok |-> TRUE, r |-> SI(0), l |-> SI(0), arg |-> SI(1)]
EZero  == EOf(SI(0))

ENorm(e) == IF IsZero(e.l) THEN [e EXCEPT !.arg = SI(1)] ELSE e

\* np.log(x), x # 0
ELog(arg) ==
    Apply1(LAMBDA x :
        IF SSign(x) < 0 THEN ENaN
        ELSE IF x = SI(1) THEN EZero
        ELSE IF SLt(SI(1), x)
             THEN [nan |-> FALSE, ok |-> TRUE, r |-> SI(0), l |-> SI(1), arg |-> x]
             ELSE [nan |-> FALSE, ok |-> TRUE, r |-> SI(0), l |-> SI(-1), arg |-> SInv(x)],
        arg)

EScale(arg1, arg2) ==
    Apply2(LAMBDA s, e :
        IF e.nan THEN e ELSE ENorm([e EXCEPT !.r = SMul(s, e.r), !.l = SMul(s, e.l)]),
        arg1, arg2)

ENeg(arg) ==
    Apply1(LAMBDA e :
        EScale(SI(-1), e),
        arg)

EAdd(arg1, arg2) ==
    Apply2(LAMBDA x, y :
        IF x.nan \/ y.nan THEN ENaN
        ELSE ENorm([nan |-> FALSE,
                    ok  |-> x.ok /\ y.ok /\ (IsZero(x.l) \/ IsZero(y.l) \/ x.arg = y.arg),
                    r   |-> SAdd(x.r, y.r),
                    l   |-> SAdd(x.l, y.l),
                    arg |-> IF IsZero(x.l) THEN y.arg ELSE x.arg]),
        arg1, arg2)

ESub(arg1, arg2) ==
    Apply2(LAMBDA x, y :
        EAdd(x, ENeg(y)),
        arg1, arg2)

RECURSIVE ESum(_)
ESum(arg) ==
    Apply1(LAMBDA s :
        IF s = << >> THEN EZero ELSE EAdd(s[1], ESum(Tail(s))),
        arg)

\* sign of r + l*ln(arg): ln(arg) > 0; undetermined (ok = FALSE below) when
\* r and l disagree
ESign(arg) ==
    Apply1(LAMBDA e :
        IF e.nan THEN 0
        ELSE IF IsZero(e.l) THEN SSign(e.r)
        ELSE IF IsZero(e.r) \/ SSign(e.r) = SSign(e.l) THEN SSign(e.l)
        ELSE 0,
        arg)

ESignOk(arg) ==
    Apply1(LAMBDA e :
        e.nan \/ (e.ok /\ (IsZero(e.l) \/ IsZero(e.r) \/ SSign(e.r) = SSign(e.l))),
        arg)

EPos(arg) ==
    Apply1(LAMBDA e :
        ~e.nan /\ ESign(e) > 0,
        arg)
ENegative(arg) ==
    Apply1(LAMBDA e :
        ~e.nan /\ ESign(e) < 0,
        arg)

\* x / y for y # 0, when the quotient is a number of the model
RatioOk(arg1, arg2) ==
    Apply2(LAMBDA x, y :
        /\ x.ok /\ y.ok
        /\ \/ IsZero(x.l) /\ IsZero(y.l)
           \/ IsZero(x.r) /\ IsZero(y.r) /\ (IsZero(x.l) \/ x.arg = y.arg),
        arg1, arg2)
ERatio(arg1, arg2) ==
    Apply2(LAMBDA x, y :
        IF IsZero(y.l) THEN SDiv(x.r, y.r) ELSE SDiv(x.l, y.l),
        arg1, arg2)


(***************************************************************************)
(* Module constants (termoPy.py lines 7-8).  K, the default number of      *)
(* trajectory points, is 10000 in the source and scaled down here to the   *)
(* first and the last point, which are the only ones the cycles read.      *)
(***************************************************************************)
R == SR(4157, 500)
allowed_error == SR(1, 10000)
K == 2

Lt(x, y) == SLt(x, y)
Within(arg1, arg2) ==
    Apply2(LAMBDA x, tol :
        SLt(SAbs(x), tol),
        arg1, arg2)

Last(s) == s[Len(s)]

\* the array << F(1), ..., F(steps) >>
RECURSIVE Array(_, _)
Array(F(_), steps) ==
    IF steps = 0 THEN << >> ELSE Append(Array(F, steps - 1), F(steps))

\* np.linspace(a, b, steps): the end point is b itself
linspace(a, b, steps) ==
    Array(LAMBDA i : IF i = steps /\ steps > 1 THEN b
                     ELSE IF steps = 1 THEN a
                     ELSE SAdd(a, SMul(SR(i - 1, steps - 1), SSub(b, a))),
          steps)

ones(v, steps) == Array(LAMBDA i : v, steps)

(***************************************************************************)
(* BaseProcess and its four variants.                                      *)
(***************************************************************************)
Variants == {"Isothermal", "Isobaric", "Isochoric", "Adiabatic"}

\* BaseProcess.__init__: the heat capacities follow the flags; with neither
\* flag the process is monatomic
BaseProcess(variant, n, P1, V1, T1, monatomic, diatomic) ==
    LET mono == monatomic \/ ~diatomic
    IN  [variant |-> variant,
         n |-> n, P1 |-> P1, V1 |-> V1, T1 |-> T1,
         Cv    |-> SMul(IF mono THEN SR(3, 2) ELSE SR(5, 2), R),
         Cp    |-> SMul(IF mono THEN SR(5, 2) ELSE SR(7, 2), R),
         gamma |-> IF mono THEN Q(5, 3) ELSE Q(7, 5),
         volume |-> None, pressure |-> None, temperature |-> None,
         internal_energy |-> None,
         ideal_gas_law_consistency |-> None,
         first_law_consistency |-> None,
         work_done_by |-> None, heat_absorbed |-> None]

Defined(p) ==
    (IF p.P1 # None THEN 1 ELSE 0) + (IF p.V1 # None THEN 1 ELSE 0)
  + (IF p.T1 # None THEN 1 ELSE 0) + (IF p.n # None THEN 1 ELSE 0)

\* BaseProcess.P, V, T, get_n
ProcP(n, V, T) == SDiv(SMul(SMul(n, R), T), V)
ProcV(n, P, T) == SDiv(SMul(SMul(n, R), T), P)
ProcT(n, P, V) == SDiv(SMul(P, V), SMul(n, R))
get_n(P, V, T) == SDiv(SMul(P, V), SMul(R, T))

\* BaseProcess._find_missing, after its assertion: the first absent value of
\* P1, V1, T1, n is computed; with all four present nothing is done
FillMissing(p) ==
    IF p.P1 = None THEN [p EXCEPT !.P1 = Some(ProcP(Val(p.n), Val(p.V1), Val(p.T1)))]
    ELSE IF p.V1 = None THEN [p EXCEPT !.V1 = Some(ProcV(Val(p.n), Val(p.P1), Val(p.T1)))]
    ELSE IF p.T1 = None THEN [p EXCEPT !.T1 = Some(ProcT(Val(p.n), Val(p.P1), Val(p.V1)))]
    ELSE IF p.n = None THEN [p EXCEPT !.n = Some(get_n(Val(p.P1), Val(p.V1), Val(p.T1)))]
    ELSE p

\* the assertion of _find_missing: more than two of P1, V1, T1, n defined
FindMissingOk(p) == Defined(p) > 2

\* Isothermal/Isobaric/Isochoric/Adiabatic.__init__: the result of the
\* constructor, err = "none" when it returns
NewProcess(variant, n, P1, V1, T1, monatomic, diatomic) ==
    LET _find_missing(p) ==
            IF FindMissingOk(p) THEN [err |-> "none", p |-> FillMissing(p)]
            ELSE [err |-> "underspecified", p |-> p]
    IN  Apply1(_find_missing, BaseProcess(variant, n, P1, V1, T1, monatomic, diatomic))

\* calculate_work_done_by of each variant, from the trajectory
WorkDoneBy(p) ==
    LET n  == Val(p.n)
        T1 == Val(p.T1)
        V1 == Val(p.V1)
        P1 == Val(p.P1)
        Vn == Last(Val(p.volume))
        Tn == Last(Val(p.temperature))
    IN  CASE p.variant = "Isothermal" ->
               EScale(SMul(SMul(R, n), T1), ELog(SDiv(Vn, V1)))
          [] p.variant = "Isobaric"  -> EOf(SMul(P1, SSub(Vn, V1)))
          [] p.variant = "Isochoric" -> EZero
          [] p.variant = "Adiabatic" -> ENeg(EOf(SMul(SMul(n, p.Cv), SSub(Tn, T1))))
          [] OTHER -> EOf(SMul(P1, SSub(Vn, V1)))

\* calculate_heat_absorbed of each variant
HeatAbsorbed(p, work_done_by) ==
    LET n  == Val(p.n)
        T1 == Val(p.T1)
        Tn == Last(Val(p.temperature))
    IN  CASE p.variant = "Isothermal" -> work_done_by
          [] p.variant = "Isobaric"  -> EOf(SMul(SMul(n, p.Cp), SSub(Tn, T1)))
          [] p.variant = "Isochoric" -> EOf(SMul(SMul(n, p.Cv), SSub(Tn, T1)))
          [] p.variant = "Adiabatic" -> EZero
          [] OTHER -> EOf(SMul(SMul(n, SAdd(p.Cv, SI(1))), SSub(Tn, T1)))

\* BaseProcess._generate_extra_data (the entropy and the kinetic-theory
\* arrays, which nothing reads back, are left out)
GenerateExtraData(p) ==
    LET n == Val(p.n)
        vol == Val(p.volume)
        prs == Val(p.pressure)
        tmp == Val(p.temperature)
        Extra(U, w, h) ==
            [p EXCEPT
               !.internal_energy = Some(U),
               !.ideal_gas_law_consistency =
                   Some(Array(LAMBDA i : SSub(SMul(prs[i], vol[i]),
                                              SMul(SMul(n, R), tmp[i])),
                              Len(tmp))),
               !.work_done_by = Some(w),
               !.heat_absorbed = Some(h),
               !.first_law_consistency =
                   Some(EAdd(EAdd(ENeg(w), h), EOf(SSub(U[1], Last(U)))))]
        WithWork(w) ==
            Apply3(Extra, Array(LAMBDA i : SMul(SMul(p.Cv, n), tmp[i]), Len(tmp)),
                   w, HeatAbsorbed(p, w))
    IN  Apply1(WithWork, WorkDoneBy(p))

\* the process with the trajectory << volume, pressure, temperature >> stored
\* and _generate_extra_data called, as every generate_data_from_* ends
WithTrajectory(p, trajectory) ==
    Apply1(GenerateExtraData,
           [p EXCEPT !.volume = Some(trajectory[1]),
                     !.pressure = Some(trajectory[2]),
                     !.temperature = Some(trajectory[3])])

\* Adiabatic.P2_from_V2 .. V2_from_T2
P2_from_V2(p, V2) == SMul(Val(p.P1), Pow(SDiv(Val(p.V1), V2), p.gamma))
T2_from_V2(p, V2) == SMul(Val(p.T1), Pow(SDiv(Val(p.V1), V2), QSub(p.gamma, QI(1))))
P2_from_T2(p, T2) ==
    SMul(Val(p.P1), Pow(SDiv(T2, Val(p.T1)), QDiv(p.gamma, QSub(p.gamma, QI(1)))))
V2_from_T2(p, T2) ==
    SMul(Val(p.V1), Pow(SDiv(Val(p.T1), T2), QInv(QSub(p.gamma, QI(1)))))

\* the volume, pressure and temperature arrays of generate_data_from_dV of
\* Isothermal, Isobaric and Adiabatic; Isochoric inherits BaseProcess's,
\* which holds the three variables at their start
trajectory_from_dV(p, V2, steps) ==
    LET n == Val(p.n)
        Along(lin) ==
            CASE p.variant = "Isothermal" ->
                   << lin, Array(LAMBDA i : ProcP(n, lin[i], Val(p.T1)), steps),
                      ones(Val(p.T1), steps) >>
              [] p.variant = "Isobaric" ->
                   << lin, ones(Val(p.P1), steps),
                      Array(LAMBDA i : ProcT(n, Val(p.P1), lin[i]), steps) >>
              [] p.variant = "Adiabatic" ->
                   << lin, Array(LAMBDA i : P2_from_V2(p, lin[i]), steps),
                      Array(LAMBDA i : T2_from_V2(p, lin[i]), steps) >>
              [] OTHER ->
                   << ones(Val(p.V1), steps), ones(Val(p.P1), steps),
                      ones(Val(p.T1), steps) >>
    IN  Apply1(Along, linspace(Val(p.V1), V2, steps))

generate_data_from_dV(p, V2, steps) ==
    Apply2(WithTrajectory, p, trajectory_from_dV(p, V2, steps))

\* the arrays of generate_data_from_dT of Isobaric, Isochoric and Adiabatic;
\* Isothermal inherits BaseProcess's, which calls generate_data_from_dV(self.V1)
trajectory_from_dT(p, T2, steps) ==
    LET n == Val(p.n)
        Along(lin) ==
            CASE p.variant = "Isobaric" ->
                   << Array(LAMBDA i : ProcV(n, Val(p.P1), lin[i]), steps),
                      ones(Val(p.P1), steps), lin >>
              [] p.variant = "Isochoric" ->
                   << ones(Val(p.V1), steps),
                      Array(LAMBDA i : ProcP(n, Val(p.V1), lin[i]), steps), lin >>
              [] p.variant = "Adiabatic" ->
                   << Array(LAMBDA i : V2_from_T2(p, lin[i]), steps),
                      Array(LAMBDA i : P2_from_T2(p, lin[i]), steps), lin >>
              [] OTHER -> trajectory_from_dV(p, Val(p.V1), steps)
    IN  Apply1(Along, linspace(Val(p.T1), T2, steps))

generate_data_from_dT(p, T2, steps) ==
    Apply2(WithTrajectory, p, trajectory_from_dT(p, T2, steps))

\* Adiabatic.V2_from_P2, T2_from_P2
V2_from_P2(p, P2) == SMul(Val(p.V1), Pow(SDiv(Val(p.P1), P2), QInv(p.gamma)))
T2_from_P2(p, P2) ==
    SMul(Val(p.T1), Pow(SDiv(P2, Val(p.P1)), QDiv(QSub(p.gamma, QI(1)), p.gamma)))

\* the arrays of generate_data_from_dP of Isothermal, Isochoric and Adiabatic;
\* Isobaric inherits BaseProcess's, which calls generate_data_from_dV(self.V1)
trajectory_from_dP(p, P2, steps) ==
    LET n == Val(p.n)
        Along(lin) ==
            CASE p.variant = "Isothermal" ->
                   << Array(LAMBDA i : ProcV(n, lin[i], Val(p.T1)), steps), lin,
                      ones(Val(p.T1), steps) >>
              [] p.variant = "Isochoric" ->
                   << ones(Val(p.V1), steps), lin,
                      Array(LAMBDA i : ProcT(n, lin[i], Val(p.V1)), steps) >>
              [] p.variant = "Adiabatic" ->
                   << Array(LAMBDA i : V2_from_P2(p, lin[i]), steps), lin,
                      Array(LAMBDA i : T2_from_P2(p, lin[i]), steps) >>
              [] OTHER -> trajectory_from_dV(p, Val(p.V1), steps)
    IN  Apply1(Along, linspace(Val(p.P1), P2, steps))

generate_data_from_dP(p, P2, steps) ==
    Apply2(WithTrajectory, p, trajectory_from_dP(p, P2, steps))

\* the generate_data_from_* methods, and the ones in which a variant passes
\* the target to np.linspace; in the others the variant inherits
\* BaseProcess's method, which does not read the target
Methods == {"dV", "dP", "dT"}

Sweeps(variant, method) ==
    CASE method = "dV" -> variant \in {"Isothermal", "Isobaric", "Adiabatic"}
      [] method = "dP" -> variant \in {"Isothermal", "Isochoric", "Adiabatic"}
      [] OTHER         -> variant \in {"Isobaric", "Isochoric", "Adiabatic"}

\* the process after a generate_data_from_* call that raised IndexError on
\* arrays of length 0: the three arrays, the internal energy and the
\* consistency array are assigned before calculate_work_done_by or
\* calculate_heat_absorbed reads the last element (Isochoric sets its work
\* first)
Emptied(p) ==
    [p EXCEPT !.volume = Some(<< >>), !.pressure = Some(<< >>),
              !.temperature = Some(<< >>),
              !.internal_energy = Some(<< >>),
              !.ideal_gas_law_consistency = Some(<< >>),
              !.work_done_by = IF p.variant = "Isochoric" THEN Some(EZero) ELSE None]

\* one call p.generate_data_from_dV / dP / dT(target, steps=steps): err is the
\* exception the call raises, p the process after it.  np.linspace raises
\* TypeError on a target None and ValueError on a negative number of points
\* (np.ones likewise), both before anything is assigned.
GenerateData(p, method, target, steps) ==
    IF Sweeps(p.variant, method) /\ target = None
    THEN [err |-> "TypeError", p |-> p]
    ELSE IF steps < 0
    THEN [err |-> "ValueError", p |-> p]
    ELSE IF steps = 0
    THEN [err |-> "IndexError", p |-> Emptied(p)]
    ELSE [err |-> "none",
          p |-> Apply2(WithTrajectory, p,
                       CASE ~Sweeps(p.variant, method) ->
                              trajectory_from_dV(p, Val(p.V1), steps)
                         [] method = "dV" -> trajectory_from_dV(p, Val(target), steps)
                         [] method = "dP" -> trajectory_from_dP(p, Val(target), steps)
                         [] OTHER -> trajectory_from_dT(p, Val(target), steps))]

\* is_ideal_gas, is_first_law_satisfied
is_ideal_gas(p) ==
    \A i \in 1..Len(Val(p.ideal_gas_law_consistency)) :
        Within(Val(p.ideal_gas_law_consistency)[i], allowed_error)

is_first_law_satisfied(p) ==
    LET f == Val(p.first_law_consistency)
    IN  ~f.nan /\ IsZero(f.l) /\ Within(f.r, allowed_error)


(***************************************************************************)
(* Cycles.                                                                 *)
(***************************************************************************)
Implemented == {"Carnot", "Otto"}
Stubs == {"Brayton", "Stirling", "Ericsson", "Rankine", "Kalina"}

\* substances["Air"] of data/substances.JSON, the record set_internal_values
\* falls back to: a diatomic gas
Air == [Cv |-> SMul(SR(5, 2), R), Cp |-> SMul(SR(7, 2), R), gamma |-> Q(7, 5)]

\* BaseCycle.__init__
BaseCycle(kind, P1, V1, n, compression_ratio, T_hot, T_cold, monatomic, diatomic) ==
    LET WithGas(gas) ==
            [kind |-> kind,
             V1 |-> V1, P1 |-> P1, T |-> T_hot, n |-> n,
             compression_ratio |-> compression_ratio, T_hot |-> T_hot, T_cold |-> T_cold,
             efficiency |-> None,
             diatomic |-> diatomic, monatomic |-> monatomic,
             gamma |-> gas.gamma, Cv |-> gas.Cv, Cp |-> gas.Cp,
             theoretical_efficiency |-> None,
             alpha |-> None, beta |-> None,
             processes |-> None,
             work_done_by |-> None, heat_absorbed |-> None,
             cycle_is_first_law_satisfied |-> None, cycle_is_ideal_gas |-> None]
    IN  Apply1(WithGas,
               IF monatomic
                THEN [Cv |-> SMul(SR(3, 2), R), Cp |-> SMul(SR(5, 2), R), gamma |-> Q(5, 3)]
                ELSE IF diatomic
                THEN [Cv |-> SMul(SR(5, 2), R), Cp |-> SMul(SR(7, 2), R), gamma |-> Q(7, 5)]
                ELSE Air)

\* BaseCycle._find_missing computes the first absent one of P1, V1, T, n from
\* the others; it raises a TypeError when it meets a second absent one
CycleMissing(c) ==
    (IF c.P1 = None THEN 1 ELSE 0) + (IF c.V1 = None THEN 1 ELSE 0)
  + (IF c.T = None THEN 1 ELSE 0) + (IF c.n = None THEN 1 ELSE 0)

CycleFindMissing(c) ==
    IF c.P1 = None
    THEN [c EXCEPT !.P1 = Some(SDiv(SMul(SMul(Val(c.n), R), Val(c.T)), Val(c.V1)))]
    ELSE IF c.V1 = None
    THEN [c EXCEPT !.V1 = Some(SDiv(SMul(SMul(Val(c.n), R), Val(c.T)), Val(c.P1)))]
    ELSE IF c.T = None
    THEN [c EXCEPT !.T = Some(SDiv(SMul(Val(c.P1), Val(c.V1)), SMul(Val(c.n), R)))]
    ELSE IF c.n = None
    THEN [c EXCEPT !.n = Some(SDiv(SMul(Val(c.P1), Val(c.V1)), SMul(Val(c.T), R)))]
    ELSE c

\* Carnot._calculate_alpha_beta: err is "none" when both assertions pass.
\* "assert self.alpha" tests that alpha is not zero.
CarnotAlpha(c) ==
    SMul(Val(c.compression_ratio),
         Pow(SDiv(Val(c.T_cold), Val(c.T_hot)), QInv(QSub(c.gamma, QI(1)))))
\* CarnotBeta without the division by the compression ratio
CarnotBeta_no_ratio(c) ==
    Pow(SDiv(Val(c.T_hot), Val(c.T_cold)), QInv(QSub(c.gamma, QI(1))))

CarnotBeta(c) ==
    SMul(SInv(Val(c.compression_ratio)),
         Pow(SDiv(Val(c.T_hot), Val(c.T_cold)), QInv(QSub(c.gamma, QI(1)))))

AlphaOk(alpha) == ~IsZero(alpha)

Carnot_calculate_alpha_beta(c) ==
    LET Asserted(alpha, beta) ==
        IF ~AlphaOk(alpha)
        THEN [err |-> "InvalidCompressionRatio", c |-> [c EXCEPT !.alpha = Some(alpha)]]
        ELSE IF ~Lt(SI(1), SMul(beta, Val(c.compression_ratio)))
        THEN [err |-> "InvalidCompressionRatio",
              c |-> [c EXCEPT !.alpha = Some(alpha), !.beta = Some(beta)]]
        ELSE [err |-> "none", c |-> [c EXCEPT !.alpha = Some(alpha), !.beta = Some(beta)]]
    IN  Apply2(Asserted, CarnotAlpha(c), CarnotBeta(c))

\* Otto._calculate_alpha_beta
Otto_calculate_alpha_beta(c) ==
    [c EXCEPT !.alpha = Some(SInv(Val(c.compression_ratio))),
              !.beta  = Some(Val(c.compression_ratio))]

\* BaseCycle._calculate_efficiency on the lists heat_absorbed and work_done_by.
\* Q_in and Q_out are Python's sum() of the positive and of the negative heats
\* (a nan is neither): the int 0 when there is none, a numpy float otherwise.
\* 0/0 on ints raises ZeroDivisionError; a numpy float divided by 0 is an
\* infinity, which fails the assertion.
calculate_efficiency(heat_absorbed, work_done_by) ==
    LET Result(e, efficiency, ok) == [err |-> e, efficiency |-> efficiency, ok |-> ok]
        Compared(efficiency_from_heat, efficiency_from_work, ok) ==
            IF Within(SSub(efficiency_from_heat, efficiency_from_work), allowed_error)
            THEN Result("none",
                        Some(SMul(SR(1, 2),
                                  SAdd(efficiency_from_heat, efficiency_from_work))),
                        ok)
            ELSE Result("EfficiencyMismatch", None, ok)
        Summed(ins, outs, Q_in, Q_out, work_done) ==
            IF ins = << >>
            THEN IF outs = << >>
                 THEN Result("ZeroDivisionError", None, TRUE)
                 ELSE Result("EfficiencyMismatch", None, TRUE)
            ELSE IF work_done.nan
            THEN Result("EfficiencyMismatch", None, TRUE)
            ELSE Apply3(Compared, SSub(SI(1), SAbs(ERatio(Q_out, Q_in))),
                        SAbs(ERatio(work_done, Q_in)),
                        RatioOk(Q_out, Q_in) /\ RatioOk(work_done, Q_in))
        Selected(ins, outs) ==
            Apply3(LAMBDA Q_in, Q_out, work_done :
                       Summed(ins, outs, Q_in, Q_out, work_done),
                   ESum(ins), ESum(outs), ESum(work_done_by))
    IN  Apply2(Selected, SelectSeq(heat_absorbed, EPos),
               SelectSeq(heat_absorbed, ENegative))


(***************************************************************************)
(* State.  cyc is the cycle object (None before a constructor is called),  *)
(* pc its position in the state machine of the run, err the exception that *)
(* ended the run ("none" while there is none), args the arguments the      *)
(* constructor was called with.  proc is a free-standing process object,   *)
(* solved the outcome of a call of IdealGas.find_missing_values, effcall   *)
(* the outcome of BaseCycle._calculate_efficiency on given lists, idealgas *)
(* an IdealGas object.  A behaviour follows one object: one constructor or *)
(* call starts it.                                                         *)
(***************************************************************************)
VARIABLES cyc, pc, err, args, proc, solved, effcall, idealgas

vars == << cyc, pc, err, args, proc, solved, effcall, idealgas >>

\* the construction arguments the model draws
Ratios == {-2, 0, 1, 2, 3, 8, 32}
Temperatures == { << 300, 500 >>, << 100, 400 >>, << 500, 300 >> }   \* <<T_cold, T_hot>>
Flags == { << TRUE, FALSE >>, << FALSE, TRUE >>, << TRUE, TRUE >>, << FALSE, FALSE >> }
\* <<P1, V1, n>>
StateArgs ==
    { << None, Some(SR(1, 100)), Some(SI(1)) >>,
      << Some(SI(100000)), Some(SR(1, 100)), Some(SI(1)) >>,
      << Some(SI(415700)), Some(SR(1, 100)), Some(SI(1)) >>,
      << Some(SI(415700)), Some(SR(1, 100)), None >>,
      << Some(SI(415700)), None, Some(SI(1)) >>,
      << None, None, Some(SI(1)) >> }

\* the gamma of the member processes: they are given the diatomic flag only
ProcessGamma(diatomic) == IF diatomic THEN Q(7, 5) ELSE Q(5, 3)

\* the powers the run takes are numbers of the model
ExactArgs(kind, r, T_cold, T_hot, diatomic) ==
    CASE kind = "Carnot" -> HasSqrt(Q(T_cold, T_hot))
      [] kind = "Otto"   -> r > 0 /\ ExactPow(SI(r), ProcessGamma(diatomic))
      [] OTHER -> TRUE

Init ==
    /\ cyc = None
    /\ pc = "NEW"
    /\ err = "none"
    /\ args = None
    /\ proc = None
    /\ solved = None
    /\ effcall = None
    /\ idealgas = None

Idle ==
    /\ pc = "NEW" /\ proc = None /\ solved = None /\ effcall = None /\ idealgas = None
    /\ err = "none"

\* Carnot.__init__ / Otto.__init__ up to the call of run_cycle, and
\* BaseCycle.__init__ for the classes that add nothing to it
Construct(kind, r, T_cold, T_hot, P1, V1, n, monatomic, diatomic) ==
    /\ Idle
    /\ ExactArgs(kind, r, T_cold, T_hot, diatomic)
    /\ UNCHANGED << proc, solved, effcall, idealgas >>
    /\ args' = Some([kind |-> kind, compression_ratio |-> r, T_cold |-> T_cold,
                     T_hot |-> T_hot, P1 |-> P1, V1 |-> V1, n |-> n,
                     monatomic |-> monatomic, diatomic |-> diatomic])
    /\ \E c0 \in {BaseCycle(kind, P1, V1, n, Some(SI(r)), Some(SI(T_hot)),
                             Some(SI(T_cold)), monatomic, diatomic)} :
       \E c1 \in {IF kind = "Carnot"
                   THEN [c0 EXCEPT !.theoretical_efficiency =
                                       Some(SSub(SI(1), SR(T_cold, T_hot)))]
                   ELSE c0} :
           IF kind \in Stubs
           THEN cyc' = Some(c0) /\ pc' = "UNSTARTED" /\ err' = "none"
           ELSE IF CycleMissing(c1) > 1
           THEN cyc' = Some(c1) /\ pc' = "FAILED" /\ err' = "TypeError"
           ELSE \E c2 \in {CycleFindMissing(c1)} :
                IF kind = "Otto"
                THEN /\ cyc' = Some(Otto_calculate_alpha_beta(c2))
                     /\ pc' = "UNSTARTED"
                     /\ err' = "none"
                ELSE \E ab \in {Carnot_calculate_alpha_beta(c2)} :
                     /\ cyc' = Some(ab.c)
                     /\ err' = ab.err
                     /\ pc' = IF ab.err = "none" THEN "UNSTARTED" ELSE "FAILED"

EndV(p) == Last(Val(p.volume))
EndP(p) == Last(Val(p.pressure))
EndT(p) == Last(Val(p.temperature))

\* One member process of generate_processes: the constructor's arguments and
\* the target of the generate_data_from_dV (dV) or generate_data_from_dT (dT)
\* call that follows it.  The member processes are given n, V1, T1 and the
\* diatomic flag.
Call(variant, V1, T1, dV, dT) ==
    [variant |-> variant, V1 |-> V1, T1 |-> T1, dV |-> dV, dT |-> dT]

\* Carnot.generate_processes, lines 658-662: the isothermal expansion
Carnot_process_1(c) ==
    Call("Isothermal", c.V1, c.T_hot, Some(SMul(Val(c.alpha), Val(c.V1))), None)

\* lines 665-669: the adiabatic expansion
Carnot_process_2(c) ==
    Call("Adiabatic", Some(EndV(Val(c.processes)[1])), Some(EndT(Val(c.processes)[1])),
         None, c.T_cold)

\* lines 673-674: the assertion on V3
Carnot_V3_ok(c) ==
    Within(SSub(EndV(Val(c.processes)[2]), SMul(Val(c.V1), Val(c.compression_ratio))),
           allowed_error)

\* lines 681-685: the isothermal compression
Carnot_process_3(c) ==
    Call("Isothermal", Some(EndV(Val(c.processes)[2])), c.T_cold,
         Some(SMul(Val(c.beta), EndV(Val(c.processes)[2]))), None)

\* lines 688-692: the adiabatic compression
Carnot_process_4(c) ==
    Call("Adiabatic", Some(EndV(Val(c.processes)[3])), Some(EndT(Val(c.processes)[3])),
         None, c.T_hot)

\* Carnot_closure_ok without the assertion on the pressure
Carnot_closure_no_pressure(c) ==
    LET last == Val(c.processes)[4]
    IN  /\ Within(SSub(EndV(last), Val(c.V1)), allowed_error)
        /\ Within(SSub(EndT(last), Val(c.T_hot)), allowed_error)

\* lines 695-697: the three closure assertions
Carnot_closure_ok(c) ==
    LET last == Val(c.processes)[4]
    IN  /\ Within(SSub(EndV(last), Val(c.V1)), allowed_error)
        /\ Within(SSub(EndT(last), Val(c.T_hot)), allowed_error)
        /\ Within(SSub(EndP(last), Val(c.P1)), allowed_error)

\* Otto.generate_processes, lines 718-719: the adiabatic compression
Otto_process_1(c) ==
    Call("Adiabatic", c.V1, c.T_cold, Some(SMul(Val(c.alpha), Val(c.V1))), None)

\* lines 722-723: the isochoric heat addition, started at T_cold
Otto_process_2(c) ==
    Call("Isochoric", Some(EndV(Val(c.processes)[1])), c.T_cold, None, c.T_hot)

\* lines 726-727: the adiabatic expansion, started at T_hot
Otto_process_3(c) ==
    Call("Adiabatic", Some(EndV(Val(c.processes)[2])), c.T_hot,
         Some(SMul(Val(c.beta), EndV(Val(c.processes)[2]))), None)

\* lines 730-731: the isochoric heat rejection, started at T_hot
Otto_process_4(c) ==
    Call("Isochoric", Some(EndV(Val(c.processes)[3])), c.T_hot, None, c.T_cold)

\* the k-th member process of the cycle's generate_processes
MemberCall(c, k) ==
    IF c.kind = "Carnot"
    THEN CASE k = 1 -> Carnot_process_1(c) [] k = 2 -> Carnot_process_2(c)
           [] k = 3 -> Carnot_process_3(c) [] OTHER -> Carnot_process_4(c)
    ELSE CASE k = 1 -> Otto_process_1(c) [] k = 2 -> Otto_process_2(c)
           [] k = 3 -> Otto_process_3(c) [] OTHER -> Otto_process_4(c)

\* the constructor, the generate_data_from_* call and self.processes.append
AppendProcess(c, call) ==
    LET Generated(p) ==
            Apply2(WithTrajectory, p,
                   IF call.dV # None
                   THEN trajectory_from_dV(p, Val(call.dV), K)
                   ELSE trajectory_from_dT(p, Val(call.dT), K))
    IN  [c EXCEPT !.processes =
            Some(Append(Val(c.processes),
                        Apply1(Generated,
                               NewProcess(call.variant, c.n, None, call.V1, call.T1,
                                          FALSE, c.diatomic).p)))]

\* the assertions generate_processes makes after its k-th process
AssertionsOk(c, k) ==
    \/ c.kind # "Carnot"
    \/ /\ k = 2 => Carnot_V3_ok(c)
       /\ k = 4 => Carnot_closure_ok(c)

Kind == Val(cyc).kind
Args == Val(args)
Positions == << "UNSTARTED", "PROCESS_1", "PROCESS_2", "PROCESS_3", "PROCESS_4" >>

\* run_cycle -> generate_processes, one member process at a time;
\* self.processes = [] comes before the first one
Process(k) ==
    /\ pc = Positions[k]
    /\ Kind \in Implemented
    /\ \E c0 \in {IF k = 1 THEN [Val(cyc) EXCEPT !.processes = Some(<< >>)]
                   ELSE Val(cyc)} :
       \E call \in {MemberCall(c0, k)} :
       \E c \in {AppendProcess(c0, call)} :
       \E ok \in {AssertionsOk(c, k)} :
           /\ cyc' = Some(c)
           /\ pc' = IF ok THEN Positions[k + 1] ELSE "FAILED"
           /\ err' = IF ok THEN "none"
                     ELSE IF k = 2 THEN "ChainAssertion" ELSE "ClosureViolation"
    /\ UNCHANGED << args, proc, solved, effcall, idealgas >>

\* run_cycle, lines 612-616: the work and heat lists, the efficiency and the
\* two consistency flags
SeqMap(Op(_), s) == Array(LAMBDA i : Op(s[i]), Len(s))
WorkOf(p) == Val(p.work_done_by)
HeatOf(p) == Val(p.heat_absorbed)

Aggregate(c) ==
    LET ps == Val(c.processes)
        Checked(c1, e) ==
            IF e.err # "none" THEN [err |-> e.err, c |-> c1]
            ELSE [err |-> "none",
                  c |-> [c1 EXCEPT
                           !.efficiency = e.efficiency,
                           !.cycle_is_first_law_satisfied =
                               Some(\A i \in 1..Len(ps) : is_first_law_satisfied(ps[i])),
                           !.cycle_is_ideal_gas =
                               Some(\A i \in 1..Len(ps) : is_ideal_gas(ps[i]))]]
        Listed(w, h) ==
            Apply2(Checked,
                   [c EXCEPT !.work_done_by = Some(w), !.heat_absorbed = Some(h)],
                   calculate_efficiency(h, w))
    IN  Apply2(Listed, SeqMap(WorkOf, ps), SeqMap(HeatOf, ps))

Finish ==
    /\ pc = "PROCESS_4"
    /\ \E a \in {Aggregate(Val(cyc))} :
           /\ cyc' = Some(a.c)
           /\ err' = a.err
           /\ pc' = IF a.err = "none" THEN "CLOSED" ELSE "FAILED"
    /\ UNCHANGED << args, proc, solved, effcall, idealgas >>

\* run_cycle on a class that inherits BaseCycle.generate_processes ("pass"):
\* _calculate_work_in_cycle reads self.processes, which was never set
RunStub ==
    /\ pc = "UNSTARTED" /\ Kind \in Stubs
    /\ pc' = "FAILED"
    /\ err' = "AttributeError"
    /\ UNCHANGED << cyc, args, proc, solved, effcall, idealgas >>

(***************************************************************************)
(* Free-standing calls.                                                    *)
(***************************************************************************)
\* |x| < 1e-10, the tolerance of find_missing_values
WithinTiny(arg) ==
    Apply1(LAMBDA x :
        LET ax == SAbs(x)
        IN  IF ~SLt(ax, SI(1)) THEN FALSE
            ELSE Within(SMul(ax, SI(100000)), SR(1, 100000)),
        arg)

\* IdealGas.find_missing_values: the assertion on the number of absent
\* values, then the branch of the first absent one
Absent(P, V, T, n) ==
    (IF P = None THEN 1 ELSE 0) + (IF V = None THEN 1 ELSE 0)
  + (IF T = None THEN 1 ELSE 0) + (IF n = None THEN 1 ELSE 0)

ExactlyOneMissing(P, V, T, n) == Absent(P, V, T, n) = 1

find_missing_values(P, V, T, n) ==
    IF ~ExactlyOneMissing(P, V, T, n)
    THEN [err |-> "ExactlyOneMissing", out |-> None]
    ELSE IF P = None
    THEN [err |-> "none",
          out |-> Some(<< SDiv(SMul(SMul(Val(n), R), Val(T)), Val(V)), Val(V), Val(T), Val(n) >>)]
    ELSE IF V = None
    THEN [err |-> "none",
          out |-> Some(<< Val(P), SDiv(SMul(SMul(Val(n), R), Val(T)), Val(P)), Val(T), Val(n) >>)]
    ELSE IF T = None
    THEN [err |-> "none",
          out |-> Some(<< Val(P), Val(V), SDiv(SMul(Val(P), Val(V)), SMul(Val(n), R)), Val(n) >>)]
    ELSE IF n = None
    THEN [err |-> "none",
          out |-> Some(<< Val(P), Val(V), Val(T), SDiv(SMul(Val(P), Val(V)), SMul(R, Val(T))) >>)]
    ELSE IF WithinTiny(SSub(SMul(Val(P), Val(V)), SMul(SMul(Val(n), R), Val(T))))
    THEN [err |-> "none", out |-> Some(<< Val(P), Val(V), Val(T), Val(n) >>)]
    ELSE [err |-> "Inconsistent", out |-> None]

\* the values the free-standing calls are given: 12471/5 = R * 300
Pressures == { None, Some(SR(12471, 5)), Some(SI(1000)) }
Volumes == { None, Some(SI(1)), Some(SI(2)) }
Temps == { None, Some(SI(300)) }
Moles == { None, Some(SI(1)) }

FindMissingValues(P, V, T, n) ==
    \E res \in {find_missing_values(P, V, T, n)} :
        /\ Idle
        /\ solved' = Some([P |-> P, V |-> V, T |-> T, n |-> n, out |-> res.out])
        /\ err' = res.err
        /\ UNCHANGED << cyc, pc, args, proc, effcall, idealgas >>

\* the constructor of one of the four process variants
Construct_process(variant, n, P1, V1, T1, monatomic, diatomic) ==
    \E res \in {NewProcess(variant, n, P1, V1, T1, monatomic, diatomic)} :
        /\ Idle
        /\ proc' = Some([given |-> [n |-> n, P1 |-> P1, V1 |-> V1, T1 |-> T1],
                         constructed |-> res.err = "none", p |-> res.p,
                         gen |-> None])
        /\ err' = res.err
        /\ UNCHANGED << cyc, pc, args, solved, effcall, idealgas >>

\* the value of the variable a method sweeps, at the start of the process
StartOf(p, method) ==
    CASE method = "dV" -> Val(p.V1) [] method = "dP" -> Val(p.P1) [] OTHER -> Val(p.T1)

\* the two exponents an Adiabatic process raises the ratios of a sweep to
AdiabaticExponents(p, method) ==
    CASE method = "dV" -> << p.gamma, QSub(p.gamma, QI(1)) >>
      [] method = "dP" -> << QInv(p.gamma), QDiv(QSub(p.gamma, QI(1)), p.gamma) >>
      [] OTHER -> << QDiv(p.gamma, QSub(p.gamma, QI(1))), QInv(QSub(p.gamma, QI(1))) >>

\* the powers the call takes are numbers of the model
ExactSweep(p, method, target, steps) ==
    LET Exact(lin, e) ==
            \A i \in 1..steps :
                LET Both(ratio) == ExactPow(ratio, e[1]) /\ ExactPow(ratio, e[2])
                IN  Apply1(Both, SDiv(StartOf(p, method), lin[i]))
    IN  IF p.variant # "Adiabatic" \/ steps < 1 THEN TRUE
        ELSE Apply2(Exact, linspace(StartOf(p, method), target, steps),
                    AdiabaticExponents(p, method))

\* the targets of the free-standing generate_data_from_* calls, as multiples
\* of the start value, and their numbers of points
Factors == { SI(1), SI(8), SR(1, 32) }
Steps == {-1, 0, 1, 2, 3}

\* a generate_data_from_dV / dP / dT call on a constructed process
Generate(method, factor, steps) ==
    /\ pc = "NEW" /\ solved = None /\ effcall = None /\ idealgas = None
    /\ proc # None /\ Val(proc).constructed /\ Val(proc).gen = None
    /\ \E p \in {Val(proc).p} :
       \E target \in {SMul(StartOf(p, method), factor)} :
          /\ ExactSweep(p, method, target, steps)
          /\ \E res \in {GenerateData(p, method, Some(target), steps)} :
                /\ proc' = Some([Val(proc) EXCEPT
                                   !.p = res.p,
                                   !.gen = Some([method |-> method, target |-> target,
                                                 steps |-> steps, before |-> p])])
                /\ err' = res.err
    /\ UNCHANGED << cyc, pc, args, solved, effcall, idealgas >>

\* BaseCycle._calculate_efficiency on a cycle whose heat and work lists are
\* the given ones
HeatValues == {-1, 0, 2}
WorkValues == {-1, 0, 1, 2}

Calculate_efficiency(heat, work) ==
    \E h \in {Array(LAMBDA i : EOf(SI(heat[i])), Len(heat))} :
    \E w \in {Array(LAMBDA i : EOf(SI(work[i])), Len(work))} :
    \E res \in {calculate_efficiency(h, w)} :
        /\ Idle
        /\ effcall' = Some([heat_absorbed |-> h, work_done_by |-> w,
                            efficiency |-> res.efficiency])
        /\ err' = res.err
        /\ UNCHANGED << cyc, pc, args, proc, solved, idealgas >>

(***************************************************************************)
(* IdealGas: the histories P, V, T (a value appended as None is None, any  *)
(* other is Some of a number), n, the list of processes, and calls, the    *)
(* log of the transition calls made on the object.                         *)
(***************************************************************************)
\* the arguments of IdealGas(P, V, T, n) the model draws
GasArgs ==
    { << None, Some(SI(1)), Some(SI(300)), Some(SI(1)) >>,
      << Some(SR(12471, 5)), Some(SI(2)), Some(SI(300)), None >>,
      << None, None, Some(SI(300)), Some(SI(1)) >>,
      << Some(SR(12471, 5)), Some(SI(1)), Some(SI(300)), Some(SI(1)) >> }

\* IdealGas.__init__; no gas is named, so set_internal_values takes "Air"
NewGas(P, V, T, n) ==
    /\ Idle
    /\ \E res \in {find_missing_values(P, V, T, n)} :
          /\ err' = res.err
          /\ idealgas' = IF res.err # "none" THEN None
                         ELSE Some([P |-> << Some(Val(res.out)[1]) >>,
                                    V |-> << Some(Val(res.out)[2]) >>,
                                    T |-> << Some(Val(res.out)[3]) >>,
                                    n |-> Val(res.out)[4],
                                    Cv |-> Air.Cv, Cp |-> Air.Cp, gamma |-> Air.gamma,
                                    processes |-> << >>,
                                    calls |-> << >>])
    /\ UNCHANGED << cyc, pc, args, proc, solved, effcall >>

Transitions == {"isothermal", "isobaric", "isochoric", "adiabatic"}

\* the class of the process a transition constructs
ProcessClass(name) ==
    CASE name = "isothermal" -> "Adiabatic"
      [] name = "isobaric"   -> "Isobaric"
      [] name = "isochoric"  -> "Isochoric"
      [] OTHER               -> "Adiabatic"

\* the generate_data_from_* call a transition makes for its targets, as
\* << method, target >>; "print" when it makes none and prints a message
Dispatch(name, P2, V2, T2) ==
    CASE name = "isothermal" ->
           IF P2 = None THEN << "dV", V2 >>
           ELSE IF V2 = None THEN << "dP", P2 >> ELSE << "print", None >>
      [] name = "isobaric" ->
           IF V2 = None THEN << "dT", T2 >>
           ELSE IF T2 = None THEN << "dV", V2 >> ELSE << "print", None >>
      [] name = "isochoric" ->
           IF P2 = None THEN << "dT", T2 >>
           ELSE IF T2 = None THEN << "dP", P2 >> ELSE << "print", None >>
      [] OTHER ->
           IF P2 # None THEN << "dP", P2 >>
           ELSE IF V2 # None THEN << "dV", V2 >>
           ELSE IF T2 # None THEN << "dT", T2 >> ELSE << "print", None >>

\* HistoryLast reading the first element of the history
HistoryLast_first(h) == h[1]

\* the last element of a history: self.P[-1]
HistoryLast(h) == h[Len(h)]

\* np.append(history, array): the elements of the array, or the one element
\* None when the process has no array
Extended(h, array) ==
    IF array = None THEN Append(h, None)
    ELSE h \o Array(LAMBDA i : Some(Val(array)[i]), Len(Val(array)))

\* the three np.append and self.processes.append(process)
Recorded(g, p) ==
    [g EXCEPT !.P = Extended(g.P, p.pressure),
              !.V = Extended(g.V, p.volume),
              !.T = Extended(g.T, p.temperature),
              !.processes = Append(g.processes, p)]

\* IdealGas.isothermal / isobaric / isochoric / adiabatic: err is the
\* exception the call raises, g the object after it
Transition(g, name, P2, V2, T2) ==
    LET Generated_(d, res) ==
            IF d[1] = "print" THEN [err |-> "none", g |-> Recorded(g, res.p)]
            ELSE IF res.err # "none" THEN [err |-> res.err, g |-> g]
            ELSE [err |-> "none", g |-> Recorded(g, res.p)]
        Dispatched(new, d) ==
            IF new.err # "none" THEN [err |-> new.err, g |-> g]
            ELSE Apply2(Generated_, d,
                        IF d[1] = "print" THEN new
                        ELSE GenerateData(new.p, d[1], d[2], K))
    IN  Apply2(Dispatched,
               NewProcess(ProcessClass(name), Some(g.n), HistoryLast(g.P),
                          HistoryLast(g.V), HistoryLast(g.T), FALSE, FALSE),
               Dispatch(name, P2, V2, T2))

\* the powers the transition takes are numbers of the model
ExactTransition(g, name, P2, V2, T2) ==
    LET Checked(new, d) ==
            IF new.err # "none" \/ d[1] = "print" \/ d[2] = None THEN TRUE
            ELSE ExactSweep(new.p, d[1], Val(d[2]), K)
    IN  Apply2(Checked,
               NewProcess(ProcessClass(name), Some(g.n), HistoryLast(g.P),
                          HistoryLast(g.V), HistoryLast(g.T), FALSE, FALSE),
               Dispatch(name, P2, V2, T2))

\* the number of transition calls made on one object
MaxCalls == 2

\* the targets the transitions are given: absent, or the last value of the
\* history times a factor
PFactor == SR(1, 32)
VFactor == SI(8)
TFactor == SI(4)
Target(h, factor, given) ==
    IF ~given THEN None
    ELSE Some(IF HistoryLast(h) = None THEN SI(1) ELSE SMul(Val(HistoryLast(h)), factor))

\* the parameters each transition has
Takes(name, P2, V2, T2) ==
    CASE name = "isothermal" -> T2 = None
      [] name = "isobaric"   -> P2 = None
      [] name = "isochoric"  -> V2 = None
      [] OTHER               -> TRUE

\* one transition call; giveP, giveV, giveT tell which targets it is given.
\* An exception a call raised has ended the behaviour.
Call_transition(name, giveP, giveV, giveT) ==
    /\ idealgas # None /\ err = "none"
    /\ Len(Val(idealgas).calls) < MaxCalls
    /\ \E g \in {Val(idealgas)} :
       \E P2 \in {Target(g.P, PFactor, giveP)} :
       \E V2 \in {Target(g.V, VFactor, giveV)} :
       \E T2 \in {Target(g.T, TFactor, giveT)} :
          /\ Takes(name, P2, V2, T2)
          /\ ExactTransition(g, name, P2, V2, T2) = TRUE
          /\ \E res \in {Transition(g, name, P2, V2, T2)} :
                /\ err' = res.err
                /\ idealgas' =
                      Some([res.g EXCEPT !.calls =
                               Append(@, [name |-> name, P2 |-> P2, V2 |-> V2, T2 |-> T2])])
    /\ UNCHANGED << cyc, pc, args, proc, solved, effcall >>

Next ==
    \/ \E kind \in Implemented \cup Stubs, r \in Ratios, T \in Temperatures,
          a \in StateArgs, f \in Flags :
          /\ kind \in Stubs => r = 2
          /\ Construct(kind, r, T[1], T[2], a[1], a[2], a[3], f[1], f[2])
    \/ \E k \in 1..4 : Process(k)
    \/ Finish
    \/ RunStub
    \/ \E P \in Pressures, V \in Volumes, T \in Temps, n \in Moles :
          FindMissingValues(P, V, T, n)
    \/ \E variant \in Variants, n \in Moles, P1 \in Pressures, V1 \in Volumes,
          T1 \in Temps, f \in Flags :
          Construct_process(variant, n, P1, V1, T1, f[1], f[2])
    \/ \E method \in Methods, factor \in Factors, steps \in Steps :
          Generate(method, factor, steps)
    \/ \E a \in GasArgs : NewGas(a[1], a[2], a[3], a[4])
    \/ \E name \in Transitions, giveP, giveV, giveT \in BOOLEAN :
          Call_transition(name, giveP, giveV, giveT)
    \/ \E h1, h2, h3, h4 \in HeatValues, w1, w2 \in WorkValues :
          Calculate_efficiency(<< h1, h2, h3, h4 >>, << w1, w2, 0, 0 >>)

Spec == Init /\ [][Next]_vars


(***************************************************************************)
(* Properties.                                                             *)
(***************************************************************************)
Cycle == Val(cyc)
Procs == Val(Cycle.processes)
Terminal == pc \in {"CLOSED", "FAILED"}
NumProcs == IF cyc = None \/ Cycle.processes = None THEN 0 ELSE Len(Procs)

\* the state (P, V, T) a process starts from and the one its trajectory ends in
StartState(p) == << Val(p.P1), Val(p.V1), Val(p.T1) >>
EndState(p) == << EndP(p), EndV(p), EndT(p) >>

\* the end state of process p is (P, V, T) within allowed_error
EndsAt(p, P, V, T) ==
    /\ Within(SSub(EndV(p), V), allowed_error)
    /\ Within(SSub(EndT(p), T), allowed_error)
    /\ Within(SSub(EndP(p), P), allowed_error)

\* C1: in every cycle whose run completes, each of the processes 2..4 starts
\* in the state (P, V, T) the process before it ended in, and the four
\* processes have the same n.
C1_Chained ==
    pc = "CLOSED" =>
        /\ \A i \in 1..3 : StartState(Procs[i + 1]) = EndState(Procs[i])
        /\ \A i \in 1..4 : Procs[i].n = Procs[1].n

\* C2: in every cycle whose run completes, the fourth process ends in the
\* state the first process started from, within allowed_error; and a Carnot
\* cycle whose fourth process does not end in the cycle's (P1, V1, T_hot)
\* within allowed_error is FAILED with a closure violation and has no
\* efficiency.
C2_Closure ==
    /\ pc = "CLOSED" =>
           EndsAt(Procs[4], Val(Procs[1].P1), Val(Procs[1].V1), Val(Procs[1].T1))
    /\ (cyc # None /\ Kind = "Carnot" /\ NumProcs = 4
          /\ ~EndsAt(Procs[4], Val(Cycle.P1), Val(Cycle.V1), Val(Cycle.T_hot))) =>
           (pc = "FAILED" /\ err = "ClosureViolation" /\ Cycle.efficiency = None)

\* a completed Carnot cycle whose volume really changed
C2_Witness ==
    /\ pc = "CLOSED" /\ Kind = "Carnot"
    /\ EndV(Procs[1]) # Val(Cycle.V1)
    /\ EndState(Procs[4]) = StartState(Procs[1])

\* the arguments of the Carnot test of the specification, with ratio r
CarnotTest(r) ==
    /\ args # None
    /\ Args = [kind |-> "Carnot", compression_ratio |-> r, T_cold |-> 300, T_hot |-> 500,
               P1 |-> None, V1 |-> Some(SR(1, 100)), n |-> Some(SI(1)),
               monatomic |-> TRUE, diatomic |-> FALSE]

C4_OttoEfficiency ==
    (args # None /\ Terminal /\ Args.kind = "Otto" /\ Args.diatomic /\ ~Args.monatomic
       /\ Args.T_cold < Args.T_hot /\ Args.P1 = None /\ Args.V1 # None /\ Args.n # None) =>
        /\ pc = "CLOSED"
        /\ Within(SSub(Val(Cycle.efficiency),
                       SSub(SI(1), Pow(Val(Cycle.compression_ratio),
                                       QSub(QI(1), Cycle.gamma)))),
                  allowed_error)

\* sums of the positive and of the negative entries of a list of integers
RECURSIVE SumIf(_, _)
SumIf(s, sign) ==
    IF s = << >> THEN 0
    ELSE (IF s[1].r.a.n * sign > 0 THEN s[1].r.a.n ELSE 0) + SumIf(Tail(s), sign)

\* C5: with Q_in the sum of the positive heats, Q_out the sum of the
\* negative ones and W the sum of the works, _calculate_efficiency fails with
\* an efficiency mismatch and sets no efficiency when
\* |(1 - |Q_out/Q_in|) - |W/Q_in|| >= allowed_error (in particular when
\* Q_in = 0, where the difference is no number), and sets the efficiency to
\* the mean of the two values otherwise.
C5_Efficiency ==
    effcall # None =>
        LET Q_in  == SumIf(Val(effcall).heat_absorbed, 1)
            Q_out == SumIf(Val(effcall).heat_absorbed, -1)
            W     == SumIf(Val(effcall).work_done_by, 1)
                     + SumIf(Val(effcall).work_done_by, -1)
        IN  IF Q_in = 0
            THEN err = "EfficiencyMismatch" /\ Val(effcall).efficiency = None
            ELSE LET from_heat == SSub(SI(1), SAbs(SR(Q_out, Q_in)))
                     from_work == SAbs(SR(W, Q_in))
                 IN  IF Within(SSub(from_heat, from_work), allowed_error)
                     THEN /\ err = "none"
                          /\ Val(effcall).efficiency =
                                 Some(SMul(SR(1, 2), SAdd(from_heat, from_work)))
                     ELSE err = "EfficiencyMismatch" /\ Val(effcall).efficiency = None

\* C6: a Carnot construction whose alpha is not > 0 or whose beta * r is not
\* > 1 fails with an invalid-compression-ratio error before any process is
\* generated; otherwise it does not fail with that error.
C6_RatioChecked ==
    (cyc # None /\ Kind = "Carnot" /\ err # "TypeError") =>
        LET bad == \/ ~SLt(SI(0), CarnotAlpha(Cycle))
                   \/ ~SLt(SI(1), SMul(CarnotBeta(Cycle), Val(Cycle.compression_ratio)))
        IN  IF bad
            THEN pc = "FAILED" /\ err = "InvalidCompressionRatio" /\ Cycle.processes = None
            ELSE err # "InvalidCompressionRatio"

\* C7: run_cycle on Brayton, Stirling, Ericsson, Rankine or Kalina fails with
\* a not-implemented error and never leaves a process list, an efficiency or
\* consistency flags.
C7_StubFails ==
    (cyc # None /\ Kind \in Stubs) =>
        /\ pc \in {"UNSTARTED", "FAILED"}
        /\ pc = "FAILED" => err = "NotImplementedError"
        /\ Cycle.processes = None /\ Cycle.efficiency = None
        /\ Cycle.cycle_is_first_law_satisfied = None /\ Cycle.cycle_is_ideal_gas = None

\* the results of a run that the cycle object holds
HoldsNothing(c) ==
    /\ c.processes = None
    /\ c.work_done_by = None /\ c.heat_absorbed = None
    /\ c.efficiency = None
    /\ c.cycle_is_first_law_satisfied = None /\ c.cycle_is_ideal_gas = None
HoldsAll(c) ==
    /\ c.processes # None
    /\ c.work_done_by # None /\ c.heat_absorbed # None
    /\ c.efficiency # None
    /\ c.cycle_is_first_law_satisfied # None /\ c.cycle_is_ideal_gas # None

PcOrder ==
    << "NEW", "UNSTARTED", "PROCESS_1", "PROCESS_2", "PROCESS_3", "PROCESS_4", "CLOSED" >>
PcIndex(p) == CHOOSE i \in 1..7 : PcOrder[i] = p

\* C8: a run moves UNSTARTED -> PROCESS_1 -> PROCESS_2 -> PROCESS_3 ->
\* PROCESS_4 -> CLOSED, or to FAILED; after a run that failed on the chain
\* assertion, the closure assertion or the efficiency cross-check the cycle
\* holds no process list, no work/heat lists, no efficiency and no flags, and
\* it holds all of them only in CLOSED.
C8_Atomic ==
    [][ /\ (pc' # "FAILED" /\ pc' # pc) => PcIndex(pc') = PcIndex(pc) + 1
        /\ (pc' = "FAILED" /\ err' \in {"ChainAssertion", "ClosureViolation",
                                        "EfficiencyMismatch"}) => HoldsNothing(Val(cyc'))
        /\ (cyc' # None /\ HoldsAll(Val(cyc'))) => pc' = "CLOSED" ]_vars

\* P * V = n * R * T
GasLaw(P, V, T, n) == SMul(P, V) = SMul(SMul(n, R), T)

\* C9: find_missing_values with exactly one of P, V, T, n absent returns the
\* other three unchanged and the absent one such that PV = nRT; with none
\* absent it returns the inputs when |PV - nRT| < 1e-10 and fails with an
\* inconsistent-state error otherwise; with more than one absent it fails
\* with the underspecified-state error.
C9_Solver ==
    solved # None =>
        LET c == Val(solved)
            k == Absent(c.P, c.V, c.T, c.n)
            o == Val(c.out)
        IN  /\ k = 1 =>
                  /\ err = "none" /\ c.out # None
                  /\ GasLaw(o[1], o[2], o[3], o[4])
                  /\ c.P # None => o[1] = Val(c.P)
                  /\ c.V # None => o[2] = Val(c.V)
                  /\ c.T # None => o[3] = Val(c.T)
                  /\ c.n # None => o[4] = Val(c.n)
            /\ k > 1 => (err = "ExactlyOneMissing" /\ c.out = None)
            /\ k = 0 =>
                  IF WithinTiny(SSub(SMul(Val(c.P), Val(c.V)),
                                     SMul(SMul(Val(c.n), R), Val(c.T))))
                  THEN err = "none" /\ c.out = Some(<< Val(c.P), Val(c.V), Val(c.T), Val(c.n) >>)
                  ELSE err = "Inconsistent" /\ c.out = None

\* C10: a process constructed with P1, V1, T1, n all given and PV # nRT beyond
\* allowed_error fails with an inconsistent-state error; with two or fewer
\* given it fails with the underspecified-state error; with exactly three
\* given it is constructed, keeps the three and P1 * V1 = n * R * T1.
C10_ProcessState ==
    proc # None =>
        LET c == Val(proc)
            g == c.given
            k == Defined(BaseProcess("Isothermal", g.n, g.P1, g.V1, g.T1, FALSE, FALSE))
        IN  /\ (k = 4 /\ ~Within(SSub(SMul(Val(g.P1), Val(g.V1)),
                                      SMul(SMul(Val(g.n), R), Val(g.T1))), allowed_error)) =>
                  (err = "Inconsistent" /\ ~c.constructed)
            /\ k <= 2 => (err = "underspecified" /\ ~c.constructed)
            /\ k = 3 =>
                  /\ err = "none" /\ c.constructed
                  /\ GasLaw(Val(c.p.P1), Val(c.p.V1), Val(c.p.T1), Val(c.p.n))
                  /\ g.P1 # None => c.p.P1 = g.P1
                  /\ g.V1 # None => c.p.V1 = g.V1
                  /\ g.T1 # None => c.p.T1 = g.T1
                  /\ g.n # None => c.p.n = g.n

\* a free-standing process on which a generate_data_from_* call was made
Generated == proc # None /\ Val(proc).gen # None
GenCall == Val(Val(proc).gen)
GenProc == Val(proc).p

\* the three arrays of a process
TrajectoryOf(p) == << p.volume, p.pressure, p.temperature >>

\* the array of the variable a method sweeps
SweptArray(p, method) ==
    CASE method = "dV" -> Val(p.volume) [] method = "dP" -> Val(p.pressure)
      [] OTHER -> Val(p.temperature)

\* C11: every trajectory a generate_data_from_dV / dP / dT call returns, on
\* any process variant (processes constructed with all four initial values
\* included), satisfies |pressure[i] * volume[i] - n * R * temperature[i]| <
\* allowed_error at every index i; a generation that would violate this
\* raises instead of returning.
C11_TrajectoryIsIdealGas ==
    (Generated /\ err = "none") =>
        \A i \in 1..Len(Val(GenProc.volume)) :
            Within(SSub(SMul(Val(GenProc.pressure)[i], Val(GenProc.volume)[i]),
                        SMul(SMul(Val(GenProc.n), R), Val(GenProc.temperature)[i])),
                   allowed_error)

\* C12: a generation call with steps < 2 raises and leaves the trajectory of
\* the process as it was; a call with steps >= 2 returns three arrays of
\* length steps, and the swept variable is its start value at the first
\* index and the target at the last.
C12_StepsValidated ==
    Generated =>
        /\ GenCall.steps < 2 =>
              /\ err # "none"
              /\ TrajectoryOf(GenProc) = TrajectoryOf(GenCall.before)
        /\ GenCall.steps >= 2 =>
              /\ err = "none"
              /\ Len(Val(GenProc.volume)) = GenCall.steps
              /\ Len(Val(GenProc.pressure)) = GenCall.steps
              /\ Len(Val(GenProc.temperature)) = GenCall.steps
              /\ SweptArray(GenProc, GenCall.method)[1] = StartOf(GenCall.before, GenCall.method)
              /\ Last(SweptArray(GenProc, GenCall.method)) = GenCall.target

GasObj == Val(idealgas)

\* the number of targets a transition call was given
Given(call) ==
    (IF call.P2 # None THEN 1 ELSE 0) + (IF call.V2 # None THEN 1 ELSE 0)
  + (IF call.T2 # None THEN 1 ELSE 0)

AllSingleTarget == \A i \in 1..Len(GasObj.calls) : Given(GasObj.calls[i]) = 1

\* C13: after any sequence of transition calls, each with exactly one
\* target, the histories P, V, T have the same length 1 + K * len(processes);
\* every call appended exactly one process, which starts in the (P, V, T)
\* that was last in the history before the call and has the n of the gas;
\* and the (P, V, T) last in the history after the call is the end state of
\* that process.
C13_History ==
    (idealgas # None /\ AllSingleTarget) =>
        /\ Len(GasObj.processes) = Len(GasObj.calls)
        /\ Len(GasObj.P) = 1 + K * Len(GasObj.processes)
        /\ Len(GasObj.V) = 1 + K * Len(GasObj.processes)
        /\ Len(GasObj.T) = 1 + K * Len(GasObj.processes)
        /\ \A i \in 1..Len(GasObj.processes) :
              /\ GasObj.processes[i].P1 = GasObj.P[1 + K * (i - 1)]
              /\ GasObj.processes[i].V1 = GasObj.V[1 + K * (i - 1)]
              /\ GasObj.processes[i].T1 = GasObj.T[1 + K * (i - 1)]
              /\ GasObj.processes[i].n = Some(GasObj.n)
              /\ GasObj.P[1 + K * i] = Some(EndP(GasObj.processes[i]))
              /\ GasObj.V[1 + K * i] = Some(EndV(GasObj.processes[i]))
              /\ GasObj.T[1 + K * i] = Some(EndT(GasObj.processes[i]))

\* two single-target calls of different transitions, each of which moved the
\* gas to a new state
C13_Witness ==
    /\ idealgas # None /\ AllSingleTarget
    /\ Len(GasObj.calls) = 2 /\ Len(GasObj.processes) = 2
    /\ GasObj.calls[1].name # GasObj.calls[2].name
    /\ GasObj.processes[2].P1 = Some(EndP(GasObj.processes[1]))
    /\ StartState(GasObj.processes[2]) # StartState(GasObj.processes[1])
    /\ EndState(GasObj.processes[2]) # StartState(GasObj.processes[2])

\* the process family a transition is named after
Family(name) ==
    CASE name = "isothermal" -> "Isothermal"
      [] name = "isobaric"   -> "Isobaric"
      [] name = "isochoric"  -> "Isochoric"
      [] OTHER               -> "Adiabatic"

\* C14: each single-target transition call records a process of the family
\* it is named after; after isothermal(V2=...) or isothermal(P2=...) the
\* recorded process is an Isothermal one and every temperature the call
\* appended to the history equals the temperature that was last before it.
C14_NamedFamily ==
    (idealgas # None /\ AllSingleTarget) =>
        \A i \in 1..Len(GasObj.calls) :
            /\ GasObj.processes[i].variant = Family(GasObj.calls[i].name)
            /\ GasObj.calls[i].name = "isothermal" =>
                   \A j \in 1..K :
                       GasObj.T[1 + K * (i - 1) + j] = GasObj.T[1 + K * (i - 1)]

\* C17: a transition call that is given no target, or more than one, leaves
\* the histories P, V, T and the list of processes as they were.
C17_FrameOfBadCall ==
    [][ (idealgas # None /\ idealgas' # None
           /\ Len(Val(idealgas').calls) = Len(Val(idealgas).calls) + 1
           /\ Given(Last(Val(idealgas').calls)) # 1) =>
            /\ Val(idealgas').P = Val(idealgas).P
            /\ Val(idealgas').V = Val(idealgas).V
            /\ Val(idealgas').T = Val(idealgas).T
            /\ Val(idealgas').processes = Val(idealgas).processes ]_vars

\* the heat process p absorbs is taken in at temperature T throughout
HeatOnlyAt(p, T) == Val(p.T1) = T /\ EndT(p) = T

\* C15: in a Carnot cycle that passed the check of alpha and beta, process 1
\* is an isothermal expansion (it ends at a volume greater than V1), process
\* 2 an adiabatic expansion ending at T_cold, process 3 an isothermal
\* compression (it ends at a volume smaller than V3), process 4 an adiabatic
\* compression ending at T_hot; a process that absorbs heat does so at T_hot
\* and one that releases heat does so at T_cold.
C15_CarnotDirections ==
    (cyc # None /\ Kind = "Carnot" /\ NumProcs >= 1) =>
        /\ Procs[1].variant = "Isothermal"
        /\ SLt(Val(Cycle.V1), EndV(Procs[1]))
        /\ NumProcs >= 2 =>
              /\ Procs[2].variant = "Adiabatic"
              /\ SLt(EndV(Procs[1]), EndV(Procs[2]))
              /\ EndT(Procs[2]) = Val(Cycle.T_cold)
        /\ NumProcs >= 3 =>
              /\ Procs[3].variant = "Isothermal"
              /\ SLt(EndV(Procs[3]), EndV(Procs[2]))
        /\ NumProcs >= 4 =>
              /\ Procs[4].variant = "Adiabatic"
              /\ SLt(EndV(Procs[4]), EndV(Procs[3]))
              /\ EndT(Procs[4]) = Val(Cycle.T_hot)
        /\ \A i \in 1..NumProcs :
              /\ EPos(HeatOf(Procs[i])) => HeatOnlyAt(Procs[i], Val(Cycle.T_hot))
              /\ ENegative(HeatOf(Procs[i])) => HeatOnlyAt(Procs[i], Val(Cycle.T_cold))

\* C16: for every combination of the monatomic and diatomic flags, the gamma
\* of a Carnot or Otto cycle is the gamma of each of its member processes;
\* so no Carnot run fails the check V3 = compression_ratio * V1 with a
\* process whose gamma differs from the cycle's.
C16_GammaAgrees ==
    (cyc # None /\ Kind \in Implemented /\ NumProcs >= 1) =>
        /\ \A i \in 1..NumProcs : Procs[i].gamma = Cycle.gamma
        /\ ~(err = "ChainAssertion" /\ Procs[2].gamma # Cycle.gamma)

=============================================================================
